---- MODULE Spec2Model ----
(***************************************************************************)
(* Model of the recording / playback session of the TP-7 audio recorder    *)
(* (src/App.js, second component definition, lines 698-1639).              *)
(*                                                                         *)
(* React state (useState) is the model's state.  An async function is a    *)
(* task: the call runs the synchronous prefix up to the first await with   *)
(* the state of the render it was created in (its closure), and every      *)
(* continuation after an await is one further step that still reads the    *)
(* closure, not the current state.  A request to the audio engine takes    *)
(* effect when it is issued; the promise is settled at some later step, in *)
(* any order relative to the other tasks' promises.  The useEffect hooks   *)
(* run as part of the step that changes their dependencies.  Every catch   *)
(* block of the component only logs and alerts, so a request that throws   *)
(* ends its task in the step that issues it; the stopAsync of playback may *)
(* also be rejected when its promise settles.                              *)
(***************************************************************************)
EXTENDS Integers, Sequences, FiniteSets, Bags, TLC

\* ---------------------------------------------------------------- bounds
MaxTasks == 2      \* async calls in flight at the same time
MaxMillis == 1     \* positionMillis / durationMillis reported by the engine
MaxDuration == 1   \* ticks of the duration timer that are followed
MaxStore == 1      \* recordings that captures add to the store
MaxSeconds == 3661 \* elapsed seconds a session hands to formatDuration
MaxCaptures == 2   \* capture handles alive or referenced at the same time
MaxClock == 1      \* distinct values Date.now() can still advance through
MaxPosition == 4   \* positionMillis / durationMillis where the percentage is looked at

None == 0          \* null: no handle, no id
NoUri == ""        \* a Recording object without uri field (falsy)

VARIABLES
  isRecording,        \* useState(false), line 725
  isPaused,           \* useState(false), line 726
  recordingDuration,  \* useState(0), line 727
  recordings,         \* useState([]), line 728
  recording,          \* useState(null), line 730: the capture handle held
  playingId,          \* useState(null), line 733
  playbackProgress,   \* useState({}), line 734: id -> percentage
  currentSound,       \* useState(null), line 735: the sound handle held
  captures,           \* audio engine: capture handle -> "free" | "recording" | "paused"
  sounds,             \* audio engine: sound handle -> [loaded, playing, cb]
  tasks,              \* bag of async calls in flight (closure + position)
  now                 \* the value Date.now() returned last

vars == <<isRecording, isPaused, recordingDuration, recordings, recording,
          playingId, playbackProgress, currentSound, captures, sounds, tasks, now>>

captureVars == <<isRecording, isPaused, recordingDuration, recordings, recording,
                 captures, now>>
playbackVars == <<playingId, playbackProgress, currentSound, sounds>>

\* ------------------------------------------------------- pure functions
\* toString() without the padStart of line 776
pad2_unpadded(n) == ToString(n)

\* line 776: n.toString().padStart(2, '0')
pad2(n) == IF n < 10 THEN "0" \o ToString(n) ELSE ToString(n)

\* line 772-777
formatDuration(seconds) ==
  ToString(seconds \div 3600) \o "." \o pad2((seconds % 3600) \div 60)
    \o "." \o pad2(seconds % 60)

\* lines 1040-1069: the demo entries shown while the store is empty; none has a uri
sampleRecordings ==
  << [id |-> 1, duration |-> "00:30", transcription |-> "Yo mama so fat she hit da quan. For real.",
      section |-> "Today", uri |-> NoUri],
     [id |-> 2, duration |-> "00:24", transcription |-> "Well I'm a peanut bar and I'm here to say. [...] another rh...",
      section |-> "Today", uri |-> NoUri],
     [id |-> 3, duration |-> "00:30", transcription |-> "Yo mama so fat she hit da quan. For real.",
      section |-> "Yesterday", uri |-> NoUri],
     [id |-> 4, duration |-> "00:24", transcription |-> "Well I'm a peanut bar and I'm here to say. [...] another rh...",
      section |-> "Yesterday", uri |-> NoUri] >>

\* lines 871-882: the entry stopRecording builds (the display time is left out)
newRecording(id, seconds, uri) ==
  [id |-> id, duration |-> formatDuration(seconds), transcription |-> "New recording...",
   section |-> "Today", uri |-> uri]

\* recording.getURI() of a capture that was prepared: the file it wrote
FileUri == "file"

\* the uri of a file that is no longer there, or is empty
StaleUri == "stale"

Range(s) == {s[i] : i \in DOMAIN s}

\* Date.now() is far above the sample ids
FirstNow == Len(sampleRecordings) + 1

\* The Recording objects playRecording can be handed
Playable == Range(sampleRecordings) \cup Range(recordings)

RECURSIVE Gcd(_, _)
Gcd(a, b) == IF b = 0 THEN a ELSE Gcd(b, a % b)

\* a percentage kept exactly, as a fraction in lowest terms
Frac(n, d) == LET g == Gcd(n, d) IN <<n \div g, d \div g>>
Zero == <<0, 1>>

\* the percentage without the test of durationMillis: x / 0 is Infinity (or
\* NaN for 0 / 0), written here as a fraction over 0
progressOf_unguarded(positionMillis, durationMillis) ==
  IF durationMillis # 0 THEN Frac(positionMillis * 100, durationMillis)
  ELSE <<positionMillis, 0>>

\* lines 938-940: durationMillis ? (positionMillis / durationMillis) * 100 : 0
progressOf(positionMillis, durationMillis) ==
  IF durationMillis # 0 THEN Frac(positionMillis * 100, durationMillis) ELSE Zero

\* {...prev, [id]: value}
Put(map, id, value) ==
  [k \in DOMAIN map \cup {id} |-> IF k = id THEN value ELSE map[k]]

\* --------------------------------------------------------- audio engine
SoundIds == 1 .. (2 * MaxTasks + 1)
CaptureIds == 1 .. MaxCaptures

NoSound == [loaded |-> FALSE, playing |-> FALSE, cb |-> None]

\* handles a task still refers to
TaskSounds ==
  UNION {{t.cur, t.new} : t \in {u \in BagToSet(tasks) : u.op \in {"play", "pausePlayback", "stopPlayback"}}}

\* A sound object that is unloaded and that nothing refers to any more cannot
\* act again, so its name is given to the next object created.
FreshSound ==
  CHOOSE h \in SoundIds :
    /\ ~sounds[h].loaded /\ h # currentSound /\ h \notin TaskSounds
    /\ \A g \in SoundIds :
         (~sounds[g].loaded /\ g # currentSound /\ g \notin TaskSounds) => h <= g

\* Audio.Sound.createAsync({uri}, {shouldPlay: true, isLooping: false}), line 918
createSound(snds, h) == [snds EXCEPT ![h] = [loaded |-> TRUE, playing |-> TRUE, cb |-> None]]

\* sound.unloadAsync(): resolves for a loaded and for an unloaded sound
unloadSound(snds, h) == IF h = None THEN snds ELSE [snds EXCEPT ![h] = NoSound]

\* the effect on [currentSound] left out
cleanupSound_missing(snds, old, new) == snds

\* lines 996-1002: the cleanup of the effect on [currentSound] unloads the
\* sound of the previous render when currentSound changes
cleanupSound(snds, old, new) == IF old # new THEN unloadSound(snds, old) ELSE snds

LoadedSounds == {h \in SoundIds : sounds[h].loaded}

\* capture handles the engine holds open (prepared and not yet unloaded)
LiveCaptures == {h \in CaptureIds : captures[h] # "free"}

\* handles a task still refers to
TaskCaptures ==
  UNION {{t.rec, t.new} : t \in {u \in BagToSet(tasks) : u.op \in {"start", "pauseRecording", "stopRecording"}}}

FreeCaptures == {h \in CaptureIds : captures[h] = "free" /\ h # recording /\ h \notin TaskCaptures}

\* As for sounds: the name of an unloaded capture nothing refers to is reused.
FreshCapture == CHOOSE h \in FreeCaptures : \A g \in FreeCaptures : h <= g

\* recording.stopAndUnloadAsync() on handle h with outcome ok: it throws on a
\* handle that is already unloaded; when it throws on a live handle the
\* engine has either released the handle or left it as it was (`gone`)
stopAndUnload(caps, h, ok, gone) == IF ok \/ gone THEN [caps EXCEPT ![h] = "free"] ELSE caps

\* a stopAndUnloadAsync of handle h has been issued and has not settled: the
\* Recording object is not yet marked as unloaded
Stopping(h) ==
  \E t \in BagToSet(tasks) :
    t.op \in {"start", "stopRecording", "save"} /\ t.pc = "stop" /\ t.rec = h

\* the outcomes <<ok, gone>> the engine can answer with for handle h: a
\* handle that is unloaded throws, but while an earlier stopAndUnloadAsync
\* of it is still in flight a further one may go through as well
StopOutcomes(h) ==
  IF captures[h] = "free"
  THEN IF Stopping(h) THEN {<<TRUE, TRUE>>, <<FALSE, FALSE>>} ELSE {<<FALSE, FALSE>>}
  ELSE {<<TRUE, TRUE>>, <<FALSE, TRUE>>, <<FALSE, FALSE>>}

\* ---------------------------------------------------------------- tasks
CanSpawn == BagCardinality(tasks) < MaxTasks
Spawn(t) == tasks (+) SetToBag({t})
Drop(t) == tasks (-) SetToBag({t})
Move(t, u) == (tasks (-) SetToBag({t})) (+) SetToBag({u})
Tasks(op, pc) == {t \in BagToSet(tasks) : t.op = op /\ t.pc = pc}

\* cur: the closure's currentSound; new: the sound the task created
PlayTask(pc, r, cur) ==
  [op |-> "play", pc |-> pc, rec |-> r.id, uri |-> r.uri, cur |-> cur, new |-> None]

\* ------------------------------------------------------------- playback
\* playLoad without the uri check of lines 912-915
playLoad_unchecked(t, rest, old, cur) ==
  \/ /\ BagCardinality(rest) < MaxTasks
     /\ sounds' = cleanupSound(createSound(sounds, FreshSound), old, cur)
     /\ tasks' = rest (+) SetToBag({[t EXCEPT !.pc = "create", !.new = FreshSound]})
  \/ /\ sounds' = cleanupSound(sounds, old, cur)
     /\ tasks' = rest

\* lines 911-921 of playRecording: the uri check and Audio.Sound.createAsync,
\* run by task t with the other tasks `rest`; `old` is the currentSound the
\* render held before this step, `cur` the one it holds after it.
playLoad(t, rest, old, cur) ==
  IF t.uri = NoUri
  THEN \* 912-915: alert and return
       /\ tasks' = rest
       /\ sounds' = cleanupSound(sounds, old, cur)
  ELSE \* 918-921: the load succeeds (a playing sound) when the file is there ...
       \/ /\ t.uri # StaleUri
          /\ BagCardinality(rest) < MaxTasks
          /\ sounds' = cleanupSound(createSound(sounds, FreshSound), old, cur)
          /\ tasks' = rest (+) SetToBag({[t EXCEPT !.pc = "create", !.new = FreshSound]})
       \* ... or throws (catch: 959-962)
       \/ /\ sounds' = cleanupSound(sounds, old, cur)
          /\ tasks' = rest

\* playRecording without the unloadAsync of line 907
playRecording_keepsSound(r) ==
  /\ UNCHANGED captureVars
  /\ UNCHANGED <<playingId, playbackProgress, currentSound>>
  /\ IF currentSound # None
     THEN /\ CanSpawn
          /\ sounds' = sounds
          /\ tasks' = Spawn(PlayTask("unload", r, currentSound))
     ELSE playLoad(PlayTask("call", r, None), tasks, currentSound, currentSound)

\* lines 903-921: the call of playRecording(recording), up to its first await
playRecording(r) ==
  /\ UNCHANGED captureVars
  /\ UNCHANGED <<playingId, playbackProgress, currentSound>>
  /\ IF currentSound # None
     THEN \* 906-907: await currentSound.unloadAsync()
          /\ CanSpawn
          /\ sounds' = unloadSound(sounds, currentSound)
          /\ tasks' = Spawn(PlayTask("unload", r, currentSound))
     ELSE playLoad(PlayTask("call", r, None), tasks, currentSound, currentSound)

\* lines 908-921: after the unload, setCurrentSound(null), then the load
PlayAfterUnload(t) ==
  /\ t \in Tasks("play", "unload")
  /\ UNCHANGED captureVars
  /\ UNCHANGED <<playingId, playbackProgress>>
  /\ currentSound' = None
  /\ playLoad(t, Drop(t), currentSound, None)

\* lines 923-927: after createAsync
PlayAfterCreate(t) ==
  /\ t \in Tasks("play", "create")
  /\ UNCHANGED captureVars
  /\ UNCHANGED playbackProgress
  /\ currentSound' = t.new
  /\ playingId' = t.rec
  /\ sounds' = cleanupSound(sounds, currentSound, t.new)
  /\ tasks' = Move(t, [t EXCEPT !.pc = "status"])

\* lines 928-957: after getStatusAsync, sound.setOnPlaybackStatusUpdate(...)
PlayAfterStatus(t) ==
  /\ t \in Tasks("play", "status")
  /\ UNCHANGED captureVars
  /\ UNCHANGED <<playingId, playbackProgress, currentSound>>
  /\ sounds' = IF sounds[t.new].loaded THEN [sounds EXCEPT ![t.new].cb = t.rec] ELSE sounds
  /\ tasks' = Drop(t)

\* the callback without the reset of lines 951-954
StatusUpdate_keepsProgress(h, positionMillis, durationMillis, didJustFinish) ==
  /\ sounds[h].loaded /\ sounds[h].cb # None
  /\ didJustFinish => sounds[h].playing /\ positionMillis = durationMillis
  /\ durationMillis # 0 => positionMillis <= durationMillis
  /\ UNCHANGED captureVars
  /\ UNCHANGED <<currentSound, tasks>>
  /\ playbackProgress' = Put(playbackProgress, sounds[h].cb, progressOf(positionMillis, durationMillis))
  /\ IF didJustFinish
     THEN /\ playingId' = None
          /\ sounds' = [sounds EXCEPT ![h].playing = FALSE]
     ELSE UNCHANGED <<playingId, sounds>>

\* lines 933-957: the engine calls the callback of loaded sound h with
\* (positionMillis, durationMillis, didJustFinish); an unloaded sound only
\* reports isLoaded false, which the callback ignores (line 934)
StatusUpdate(h, positionMillis, durationMillis, didJustFinish) ==
  /\ sounds[h].loaded /\ sounds[h].cb # None
  /\ didJustFinish => sounds[h].playing /\ positionMillis = durationMillis
  /\ durationMillis # 0 => positionMillis <= durationMillis
  /\ UNCHANGED captureVars
  /\ UNCHANGED <<currentSound, tasks>>
  /\ LET id == sounds[h].cb
         shown == Put(playbackProgress, id, progressOf(positionMillis, durationMillis))
     IN IF didJustFinish
        THEN /\ playingId' = None
             /\ playbackProgress' = Put(shown, id, Zero)
             /\ sounds' = [sounds EXCEPT ![h].playing = FALSE]
        ELSE /\ playbackProgress' = shown
             /\ UNCHANGED <<playingId, sounds>>

\* lines 965-968: the call of pausePlayback, up to getStatusAsync
pausePlayback ==
  /\ currentSound # None
  /\ CanSpawn
  /\ UNCHANGED captureVars
  /\ UNCHANGED playbackVars
  /\ tasks' = Spawn([op |-> "pausePlayback", pc |-> "status", cur |-> currentSound, new |-> None,
                     loaded |-> sounds[currentSound].loaded,
                     playing |-> sounds[currentSound].playing])

\* lines 969-977: pauseAsync or playAsync; nothing follows their await, and
\* on an unloaded sound they throw into the empty catch
PauseAfterStatus(t) ==
  /\ t \in Tasks("pausePlayback", "status")
  /\ UNCHANGED captureVars
  /\ UNCHANGED <<playingId, playbackProgress, currentSound>>
  /\ tasks' = Drop(t)
  /\ sounds' = IF t.loaded /\ sounds[t.cur].loaded
                THEN [sounds EXCEPT ![t.cur].playing = ~t.playing]
                ELSE sounds

\* lines 980-989: the call of stopPlayback, up to its first await
stopPlayback ==
  /\ UNCHANGED captureVars
  /\ IF currentSound # None
     THEN \* 983: stopAsync stops a loaded sound ...
          /\ UNCHANGED <<playingId, playbackProgress, currentSound>>
          /\ \/ /\ sounds[currentSound].loaded
                /\ CanSpawn
                /\ sounds' = [sounds EXCEPT ![currentSound].playing = FALSE]
                /\ tasks' = Spawn([op |-> "stopPlayback", pc |-> "stop", cur |-> currentSound,
                                   new |-> None])
             \* ... or throws, as it always does on an unloaded one (catch: 990-992)
             \/ UNCHANGED <<sounds, tasks>>
     ELSE \* 987-989
          /\ playingId' = None
          /\ playbackProgress' = <<>>
          /\ UNCHANGED <<currentSound, sounds, tasks>>

\* line 984: after stopAsync, unloadAsync; or the promise of stopAsync is
\* rejected although the engine has stopped the sound, and the catch block
\* (990-992) ends the call
StopAfterStop(t) ==
  /\ t \in Tasks("stopPlayback", "stop")
  /\ UNCHANGED captureVars
  /\ UNCHANGED <<playingId, playbackProgress, currentSound>>
  /\ \/ /\ sounds' = unloadSound(sounds, t.cur)
        /\ tasks' = Move(t, [t EXCEPT !.pc = "unload"])
     \/ /\ sounds' = sounds
        /\ tasks' = Drop(t)

\* lines 985-989: after unloadAsync
StopAfterUnload(t) ==
  /\ t \in Tasks("stopPlayback", "unload")
  /\ UNCHANGED captureVars
  /\ currentSound' = None
  /\ sounds' = cleanupSound(sounds, currentSound, None)
  /\ playingId' = None
  /\ playbackProgress' = <<>>
  /\ tasks' = Drop(t)

\* -------------------------------------------------------------- capture
\* lines 792-802: the effect on [isRecording, isPaused]; the interval it sets
\* is the Tick action, the reset is applied by the step that changes a dependency
timerEffect(wasRecording, wasPaused, nowRecording, nowPaused, seconds) ==
  IF <<wasRecording, wasPaused>> # <<nowRecording, nowPaused>> /\ ~nowRecording
  THEN 0 ELSE seconds

\* the interval left running while paused
Tick_whilePaused ==
  /\ isRecording
  /\ recordingDuration < MaxDuration
  /\ recordingDuration' = recordingDuration + 1
  /\ UNCHANGED <<isRecording, isPaused, recordings, recording, captures, now, tasks>>
  /\ UNCHANGED playbackVars

\* lines 795-797: the interval callback, alive while isRecording && !isPaused
Tick ==
  /\ isRecording /\ ~isPaused
  /\ recordingDuration < MaxDuration
  /\ recordingDuration' = recordingDuration + 1
  /\ UNCHANGED <<isRecording, isPaused, recordings, recording, captures, now, tasks>>
  /\ UNCHANGED playbackVars

\* lines 835-837: Audio.Recording.createAsync, run by task t with the other
\* tasks `rest`: a new capture that is recording, or a throw
startCreate(t, rest) ==
  \/ /\ BagCardinality(rest) < MaxTasks
     /\ FreeCaptures # {}
     /\ captures' = [captures EXCEPT ![FreshCapture] = "recording"]
     /\ tasks' = rest (+) SetToBag({[t EXCEPT !.pc = "create", !.new = FreshCapture]})
  \* catch: 841-844
  \/ /\ captures' = captures
     /\ tasks' = rest

\* lines 829-837: the call of startRecording, up to its first await
startRecording ==
  /\ UNCHANGED <<isRecording, isPaused, recordingDuration, recordings, recording, now>>
  /\ UNCHANGED playbackVars
  /\ LET t == [op |-> "start", pc |-> "call", rec |-> recording, new |-> None] IN
     IF recording # None
     THEN \* 831-833: await recording.stopAndUnloadAsync() (catch: 841-844)
          \E o \in StopOutcomes(recording) :
            /\ o[1] => CanSpawn
            /\ captures' = stopAndUnload(captures, recording, o[1], o[2])
            /\ tasks' = IF o[1] THEN Spawn([t EXCEPT !.pc = "stop"]) ELSE tasks
     ELSE startCreate(t, tasks)

\* lines 835-837: after stopAndUnloadAsync
StartAfterStop(t) ==
  /\ t \in Tasks("start", "stop")
  /\ UNCHANGED <<isRecording, isPaused, recordingDuration, recordings, recording, now>>
  /\ UNCHANGED playbackVars
  /\ startCreate(t, Drop(t))

\* the continuation of a start that begins the session with an empty list
StartAfterCreate_newList(t) ==
  /\ t \in Tasks("start", "create")
  /\ UNCHANGED <<captures, now>>
  /\ UNCHANGED playbackVars
  /\ tasks' = Drop(t)
  /\ recordings' = <<>>
  /\ recording' = t.new
  /\ isRecording' = TRUE
  /\ isPaused' = FALSE
  /\ recordingDuration' = timerEffect(isRecording, isPaused, TRUE, FALSE, recordingDuration)

\* lines 838-840: after createAsync
StartAfterCreate(t) ==
  /\ t \in Tasks("start", "create")
  /\ UNCHANGED <<recordings, captures, now>>
  /\ UNCHANGED playbackVars
  /\ tasks' = Drop(t)
  /\ recording' = t.new
  /\ isRecording' = TRUE
  /\ isPaused' = FALSE
  /\ recordingDuration' = timerEffect(isRecording, isPaused, TRUE, FALSE, recordingDuration)

\* pauseRecording that calls pauseAsync whatever the closure's isPaused is
pauseRecording_alwaysPauses ==
  /\ recording # None /\ isRecording
  /\ UNCHANGED <<isRecording, isPaused, recordingDuration, recordings, recording, now>>
  /\ UNCHANGED playbackVars
  /\ \/ /\ captures[recording] # "free"
        /\ CanSpawn
        /\ captures' = [captures EXCEPT ![recording] = "paused"]
        /\ tasks' = Spawn([op |-> "pauseRecording", pc |-> "toggle", rec |-> recording,
                           new |-> None, paused |-> isPaused])
     \/ UNCHANGED <<captures, tasks>>

\* lines 847-856: the call of pauseRecording, up to its await: startAsync
\* when the closure is paused, pauseAsync otherwise; either throws on an
\* unloaded handle and may fail on a live one
pauseRecording ==
  /\ recording # None /\ isRecording
  /\ UNCHANGED <<isRecording, isPaused, recordingDuration, recordings, recording, now>>
  /\ UNCHANGED playbackVars
  /\ \/ /\ captures[recording] # "free"
        /\ CanSpawn
        /\ captures' = [captures EXCEPT ![recording] = IF isPaused THEN "recording" ELSE "paused"]
        /\ tasks' = Spawn([op |-> "pauseRecording", pc |-> "toggle", rec |-> recording,
                           new |-> None, paused |-> isPaused])
     \* catch: 858-860
     \/ UNCHANGED <<captures, tasks>>

\* lines 852 and 855: setIsPaused(false) or setIsPaused(true)
PauseAfterToggle(t) ==
  /\ t \in Tasks("pauseRecording", "toggle")
  /\ UNCHANGED <<isRecording, recordings, recording, captures, now>>
  /\ UNCHANGED playbackVars
  /\ tasks' = Drop(t)
  /\ isPaused' = ~t.paused
  /\ recordingDuration' = timerEffect(isRecording, isPaused, isRecording, ~t.paused, recordingDuration)

\* two fingers are on the disk: the responder has been granted and not yet
\* released
Held == [op |-> "gesture", pc |-> "held", rec |-> None, new |-> None]

\* the call pauseRecording() made by a gesture handler of the current render
\* (847-856), whose request the engine takes
ToggleTask ==
  [op |-> "pauseRecording", pc |-> "toggle", rec |-> recording, new |-> None,
   paused |-> isPaused]

\* lines 1008-1017: onPanResponderGrant calls pauseRecording when the render
\* it belongs to is Recording and not Paused
onPanResponderGrant ==
  /\ Held \notin BagToSet(tasks)
  /\ UNCHANGED <<isRecording, isPaused, recordingDuration, recordings, recording, now>>
  /\ UNCHANGED playbackVars
  /\ \/ /\ isRecording /\ ~isPaused
        /\ recording # None /\ captures[recording] # "free"
        /\ BagCardinality(tasks) + 2 <= MaxTasks
        /\ captures' = [captures EXCEPT ![recording] = "paused"]
        /\ tasks' = tasks (+) SetToBag({Held}) (+) SetToBag({ToggleTask})
     \* not Recording, or Paused, or pauseAsync throws (catch: 858-860)
     \/ /\ CanSpawn
        /\ UNCHANGED captures
        /\ tasks' = Spawn(Held)

\* lines 1018-1027: onPanResponderRelease calls pauseRecording when the
\* render it belongs to is Recording and Paused
onPanResponderRelease ==
  /\ Held \in BagToSet(tasks)
  /\ UNCHANGED <<isRecording, isPaused, recordingDuration, recordings, recording, now>>
  /\ UNCHANGED playbackVars
  /\ IF isRecording /\ isPaused /\ recording # None
     THEN \/ /\ captures[recording] # "free"
             /\ captures' = [captures EXCEPT ![recording] = "recording"]
             /\ tasks' = Move(Held, ToggleTask)
          \* startAsync throws (catch: 858-860)
          \/ /\ UNCHANGED captures
             /\ tasks' = Drop(Held)
     ELSE /\ UNCHANGED captures
          /\ tasks' = Drop(Held)

\* the store that began with `before` recordings has room for one more
StoreRoom(before) ==
  Cardinality(Tasks("stopRecording", "stop")) + Len(recordings) < before + MaxStore

\* stopRecording without the return of line 865: with no handle it goes on to
\* store a recording
stopRecording_unguarded ==
  /\ UNCHANGED <<isRecording, isPaused, recordingDuration, recordings, recording, now>>
  /\ UNCHANGED playbackVars
  /\ IF recording = None
     THEN /\ CanSpawn
          /\ UNCHANGED captures
          /\ tasks' = Spawn([op |-> "stopRecording", pc |-> "stop", rec |-> None,
                             new |-> None, seconds |-> recordingDuration])
     ELSE \E o \in StopOutcomes(recording) :
            /\ o[1] => CanSpawn
            /\ captures' = stopAndUnload(captures, recording, o[1], o[2])
            /\ tasks' = IF o[1]
                         THEN Spawn([op |-> "stopRecording", pc |-> "stop", rec |-> recording,
                                     new |-> None, seconds |-> recordingDuration])
                         ELSE tasks

\* lines 863-867: the call of stopRecording, up to its await
stopRecording ==
  /\ UNCHANGED <<isRecording, isPaused, recordingDuration, recordings, recording, now>>
  /\ UNCHANGED playbackVars
  /\ IF recording = None
     THEN UNCHANGED <<captures, tasks>>
     ELSE \* 867: await recording.stopAndUnloadAsync() (catch: 889-892)
          \E o \in StopOutcomes(recording) :
            /\ o[1] => CanSpawn
            /\ captures' = stopAndUnload(captures, recording, o[1], o[2])
            /\ tasks' = IF o[1]
                         THEN Spawn([op |-> "stopRecording", pc |-> "stop", rec |-> recording,
                                     new |-> None, seconds |-> recordingDuration])
                         ELSE tasks

\* the continuation with the new entry put at the end of the list
StopRecordingAfterStop_appends(t) ==
  /\ t \in Tasks("stopRecording", "stop")
  /\ UNCHANGED captures
  /\ UNCHANGED playbackVars
  /\ tasks' = Drop(t)
  /\ \E id \in {now, now + 1} :
       /\ id <= FirstNow + MaxClock
       /\ now' = id
       /\ recordings' = recordings \o <<newRecording(id, t.seconds, FileUri)>>
       /\ recording' = None
       /\ isRecording' = FALSE
       /\ isPaused' = FALSE
       /\ recordingDuration' = 0

\* lines 868-888: after stopAndUnloadAsync; Date.now() never goes back and
\* may return the value it returned last
StopRecordingAfterStop(t) ==
  /\ t \in Tasks("stopRecording", "stop")
  /\ UNCHANGED captures
  /\ UNCHANGED playbackVars
  /\ tasks' = Drop(t)
  /\ \E id \in {now, now + 1} :
       /\ id <= FirstNow + MaxClock
       /\ now' = id
       /\ recordings' = <<newRecording(id, t.seconds, FileUri)>> \o recordings
       /\ recording' = None
       /\ isRecording' = FALSE
       /\ isPaused' = FALSE
       /\ recordingDuration' = 0

\* a call of saveCurrentRecording: `added` tells whether the stopRecording
\* it awaits has put its entry in the list
SaveTask(pc, added) ==
  [op |-> "save", pc |-> pc, rec |-> recording, new |-> None,
   seconds |-> recordingDuration, added |-> added]

\* lines 895-897: the call of saveCurrentRecording, which runs stopRecording
\* (863-867) up to its await; a stopRecording that returns at 865 or that
\* ends in its catch block resolves the promise saveCurrentRecording awaits
saveCurrentRecording ==
  /\ isRecording
  /\ CanSpawn
  /\ UNCHANGED <<isRecording, isPaused, recordingDuration, recordings, recording, now>>
  /\ UNCHANGED playbackVars
  /\ IF recording = None
     THEN /\ UNCHANGED captures
          /\ tasks' = Spawn(SaveTask("alert", FALSE))
     ELSE \E o \in StopOutcomes(recording) :
            /\ captures' = stopAndUnload(captures, recording, o[1], o[2])
            /\ tasks' = Spawn(SaveTask(IF o[1] THEN "stop" ELSE "alert", FALSE))

\* lines 868-888 run for saveCurrentRecording: stopRecording resumes after
\* stopAndUnloadAsync and stores the entry
SaveAfterStop(t) ==
  /\ t \in Tasks("save", "stop")
  /\ UNCHANGED captures
  /\ UNCHANGED playbackVars
  /\ tasks' = Move(t, [t EXCEPT !.pc = "alert", !.added = TRUE])
  /\ \E id \in {now, now + 1} :
       /\ id <= FirstNow + MaxClock
       /\ now' = id
       /\ recordings' = <<newRecording(id, t.seconds, FileUri)>> \o recordings
       /\ recording' = None
       /\ isRecording' = FALSE
       /\ isPaused' = FALSE
       /\ recordingDuration' = 0

\* line 898: after await stopRecording(), Alert.alert('Recording Saved', ...)
SaveAlert(t) ==
  /\ t \in Tasks("save", "alert")
  /\ UNCHANGED captureVars
  /\ UNCHANGED playbackVars
  /\ tasks' = Drop(t)

\* ------------------------------------------------------ specifications
InitIdle ==
  /\ isRecording = FALSE /\ isPaused = FALSE /\ recordingDuration = 0
  /\ recording = None
  /\ playingId = None /\ playbackProgress = <<>> /\ currentSound = None
  /\ captures = [h \in CaptureIds |-> "free"]
  /\ sounds = [h \in SoundIds |-> NoSound]
  /\ tasks = EmptyBag

\* the app after mount: an empty store
Init ==
  /\ InitIdle
  /\ recordings = <<>>
  /\ now = FirstNow

Next ==
  \/ Tick
  \/ startRecording
  \/ \E t \in BagToSet(tasks) : StartAfterStop(t)
  \/ \E t \in BagToSet(tasks) : StartAfterCreate(t)
  \/ pauseRecording
  \/ \E t \in BagToSet(tasks) : PauseAfterToggle(t)
  \/ StoreRoom(0) /\ stopRecording
  \/ \E t \in BagToSet(tasks) : StopRecordingAfterStop(t)

Spec == Init /\ [][Next]_vars

\* the same app with every handler that has been called running to its end
\* and the timer firing while it is alive
SpecLive == Spec /\ WF_vars(Next)

\* the capture commands
CaptureCalls ==
  \/ startRecording
  \/ pauseRecording
  \/ StoreRoom(0) /\ stopRecording

\* the timer and the continuations of the capture commands
CaptureSteps ==
  \/ Tick
  \/ \E t \in BagToSet(tasks) : StartAfterStop(t)
  \/ \E t \in BagToSet(tasks) : StartAfterCreate(t)
  \/ \E t \in BagToSet(tasks) : PauseAfterToggle(t)
  \/ \E t \in BagToSet(tasks) : StopRecordingAfterStop(t)

\* capture used one command at a time: a command is issued only when every
\* earlier one has run to its end
NextSeq == (tasks = EmptyBag /\ CaptureCalls) \/ CaptureSteps

SpecSeq == Init /\ [][NextSeq]_vars

\* as SpecSeq, with saveCurrentRecording as a further command
NextSave ==
  \/ NextSeq
  \/ tasks = EmptyBag /\ StoreRoom(0) /\ saveCurrentRecording
  \/ \E t \in BagToSet(tasks) : SaveAfterStop(t)
  \/ \E t \in BagToSet(tasks) : SaveAlert(t)

SpecSave == Init /\ [][NextSave]_vars

\* every call in flight is a pauseRecording made in the render that is
\* current: a further toggle now is issued back-to-back with them
BackToBack ==
  /\ tasks # EmptyBag
  /\ \A t \in BagToSet(tasks) : t.op = "pauseRecording" /\ t.paused = isPaused

\* as SpecSeq, and toggles may also be issued back-to-back
NextToggle ==
  \/ tasks = EmptyBag /\ CaptureCalls
  \/ BackToBack /\ pauseRecording
  \/ CaptureSteps

SpecToggle == Init /\ [][NextToggle]_vars

\* a store that one capture of one second leaves behind
OldStore == << newRecording(FirstNow, 1, FileUri) >>

\* a session over that store: every capture command at any time
InitStore ==
  /\ InitIdle
  /\ recordings = OldStore
  /\ now = recordings[1].id

NextStore ==
  \/ Tick
  \/ startRecording
  \/ \E t \in BagToSet(tasks) : StartAfterStop(t)
  \/ \E t \in BagToSet(tasks) : StartAfterCreate(t)
  \/ pauseRecording
  \/ \E t \in BagToSet(tasks) : PauseAfterToggle(t)
  \/ StoreRoom(Len(OldStore)) /\ stopRecording
  \/ \E t \in BagToSet(tasks) : StopRecordingAfterStop(t)

SpecStore == InitStore /\ [][NextStore]_vars

\* the end of a session that has counted any number of seconds: the session
\* is Recording or Paused over that store, and stopRecording is called
InitStop ==
  /\ recordings = OldStore
  /\ now = recordings[1].id
  /\ isRecording = TRUE /\ isPaused \in BOOLEAN
  /\ recordingDuration \in 0 .. MaxSeconds
  /\ recording = CHOOSE h \in CaptureIds : \A g \in CaptureIds : h <= g
  /\ captures = [h \in CaptureIds |-> IF h = recording
                                       THEN (IF isPaused THEN "paused" ELSE "recording")
                                       ELSE "free"]
  /\ playingId = None /\ playbackProgress = <<>> /\ currentSound = None
  /\ sounds = [h \in SoundIds |-> NoSound]
  /\ tasks = EmptyBag

NextStop ==
  \/ StoreRoom(Len(OldStore)) /\ stopRecording
  \/ \E t \in BagToSet(tasks) : StopRecordingAfterStop(t)

SpecStop == InitStop /\ [][NextStop]_vars

\* a session that is Recording, on which the two-finger gesture is used
InitGesture == InitStop /\ ~isPaused

NextGesture ==
  \/ Tick
  \/ onPanResponderGrant
  \/ onPanResponderRelease
  \/ \E t \in BagToSet(tasks) : PauseAfterToggle(t)

SpecGesture == InitGesture /\ [][NextGesture]_vars

\* the end of a session with stop requested any number of times
NextStopTwice ==
  \/ stopRecording
  \/ \E t \in BagToSet(tasks) : StopRecordingAfterStop(t)

SpecStopTwice == InitStop /\ [][NextStopTwice]_vars

\* a store that two captures of one second each leave behind
PlayStore ==
  << newRecording(FirstNow + 1, 1, FileUri), newRecording(FirstNow, 1, FileUri) >>

\* playback over a store of two finished recordings
InitPlay ==
  /\ InitIdle
  /\ recordings = PlayStore
  /\ now = recordings[1].id

\* the playback commands
PlayCalls ==
  \/ \E r \in Playable : playRecording(r)
  \/ pausePlayback
  \/ stopPlayback

\* the continuations of the playback commands and the engine's callbacks
PlaySteps ==
  \/ \E t \in BagToSet(tasks) : PlayAfterUnload(t)
  \/ \E t \in BagToSet(tasks) : PlayAfterCreate(t)
  \/ \E t \in BagToSet(tasks) : PlayAfterStatus(t)
  \/ \E t \in BagToSet(tasks) : PauseAfterStatus(t)
  \/ \E t \in BagToSet(tasks) : StopAfterStop(t)
  \/ \E t \in BagToSet(tasks) : StopAfterUnload(t)
  \/ \E h \in SoundIds, p \in 0 .. MaxMillis, d \in {0, MaxMillis}, f \in BOOLEAN :
       StatusUpdate(h, p, d, f)

NextPlay == PlayCalls \/ PlaySteps

\* playback with commands issued at any time, also while others are in flight
SpecPlay == InitPlay /\ [][NextPlay]_vars

\* playback used one command at a time: a command is issued only when every
\* earlier one has run to its end
NextPlaySeq == (tasks = EmptyBag /\ PlayCalls) \/ PlaySteps

SpecPlaySeq == InitPlay /\ [][NextPlaySeq]_vars

\* a store whose newest recording has lost its file
StaleStore ==
  << newRecording(FirstNow + 1, 1, StaleUri), newRecording(FirstNow, 1, FileUri) >>

InitStale ==
  /\ InitIdle
  /\ recordings = StaleStore
  /\ now = recordings[1].id

\* playback over that store, one command at a time
SpecStale == InitStale /\ [][NextPlaySeq]_vars

\* playback used one command at a time, with the engine reporting any
\* position and duration up to MaxPosition
NextProgress ==
  \/ NextPlaySeq
  \/ \E h \in SoundIds, p \in 0 .. MaxPosition, d \in 0 .. MaxPosition, f \in BOOLEAN :
       StatusUpdate(h, p, d, f)

SpecProgress == InitPlay /\ [][NextProgress]_vars

\* the async handlers of the capture side
CaptureOps == {"start", "pauseRecording", "stopRecording", "save"}

CaptureBusy == \E t \in BagToSet(tasks) : t.op \in CaptureOps

PlayBusy == \E t \in BagToSet(tasks) : t.op \notin CaptureOps

\* the whole app over a store that is not empty: capture and playback side
\* by side, each side used one command at a time
NextApp ==
  \/ ~CaptureBusy /\ startRecording
  \/ ~CaptureBusy /\ pauseRecording
  \/ ~CaptureBusy /\ StoreRoom(Len(OldStore)) /\ stopRecording
  \/ ~PlayBusy /\ PlayCalls
  \/ CaptureSteps
  \/ PlaySteps

SpecApp == InitStore /\ [][NextApp]_vars

\* The component is unmounted while no handler is in flight: its state is
\* gone (a component mounted afterwards starts from the useState values of
\* lines 725-737), the cleanup of the effect on [currentSound] (996-1002)
\* unloads the sound that is held, and nothing is done about the capture.
Teardown ==
  /\ tasks = EmptyBag
  /\ isRecording' = FALSE /\ isPaused' = FALSE /\ recordingDuration' = 0
  /\ recordings' = <<>>
  /\ recording' = None
  /\ playingId' = None /\ playbackProgress' = <<>> /\ currentSound' = None
  /\ sounds' = cleanupSound(sounds, currentSound, None)
  /\ UNCHANGED <<captures, tasks, now>>

\* the whole app, torn down at any moment of rest
NextTeardown == NextApp \/ Teardown

SpecTeardown == InitStore /\ [][NextTeardown]_vars

\* ---------------------------------------------------------------- claims
\* line 1214: playbackProgress[recording.id] || 0
ProgressShown(map, id) == IF id \in DOMAIN map THEN map[id] ELSE Zero

\* the entry of id is the same before and after the step
SameProgress(id) ==
  /\ (id \in DOMAIN playbackProgress) = (id \in DOMAIN playbackProgress')
  /\ id \in DOMAIN playbackProgress => playbackProgress'[id] = playbackProgress[id]

ProgressIds == DOMAIN playbackProgress \cup DOMAIN playbackProgress'

\* the step is one of an async call `op` (its call, or one of its continuations)
\* for the task t that it starts, moves or ends
StepOf(t, op) ==
  /\ t.op = op
  /\ CopiesIn(t, tasks) # CopiesIn(t, tasks')

StepTasks(op) == {t \in BagToSet(tasks) \cup BagToSet(tasks') : StepOf(t, op)}

\* the step is the continuation of playRecording after a successful load
\* (lines 923-927) of task t
PlaySucceeds(t) ==
  /\ t \in Tasks("play", "create")
  /\ tasks' = Move(t, [t EXCEPT !.pc = "status"])

\* the step in which the engine creates sound h
SoundCreated(h) == ~sounds[h].loaded /\ sounds'[h].loaded

\* the step is a status callback of sound h that reports didJustFinish
FinishStep(h) ==
  /\ tasks' = tasks
  /\ sounds[h].loaded /\ sounds[h].playing /\ sounds[h].cb # None
  /\ sounds'[h].loaded /\ ~sounds'[h].playing

\* C1: in every reachable state at most one sound handle is loaded in the
\* audio engine, under any interleaving of playRecording, pausePlayback,
\* stopPlayback and the engine's status callbacks.
C1_AtMostOneSoundLoaded == Cardinality(LoadedSounds) <= 1

\* C2: when playRecording(B) is called while a sound is held and B loads, the
\* sound held at the call is unloaded before B's sound is created, the
\* continuation after the load makes B the playing id, and no step of
\* playRecording(B) changes the progress entry of any other item.
C2_PlaySupersedes ==
  [][ /\ \A h \in SoundIds : \A t \in Tasks("play", "create")' :
           (SoundCreated(h) /\ t.new = h /\ t.cur # None) => ~sounds[t.cur].loaded
      /\ \A t \in BagToSet(tasks) :
           PlaySucceeds(t) => playingId' = t.rec /\ currentSound' = t.new
      /\ \A t \in StepTasks("play") : \A id \in ProgressIds :
           id # t.rec => SameProgress(id)
    ]_vars

\* C2 witness: B has just loaded after a call made while a sound was held,
\* B is the playing id and another item keeps a progress above 0.
C2_Witness ==
  \E t \in Tasks("play", "status") :
    /\ t.cur # None /\ playingId = t.rec /\ currentSound = t.new
    /\ \E a \in DOMAIN playbackProgress : a # t.rec /\ playbackProgress[a] # Zero

\* C3: immediately after playRecording(X) has loaded X's sound (before any
\* status callback of the new sound), the progress shown for X is 0.
C3_ProgressResetOnPlay ==
  [][ \A t \in BagToSet(tasks) :
        PlaySucceeds(t) => ProgressShown(playbackProgress', t.rec) = Zero ]_vars

\* C4: a status callback with didJustFinish of the sound of item X leaves
\* playingId none and the progress of X at 0, and changes the progress of no
\* other item; a progress entry changes only by a callback of a loaded sound
\* of that item or by stopPlayback clearing the map.
C4_FinishResets ==
  [][ /\ \A h \in SoundIds :
           FinishStep(h) =>
             /\ playingId' = None
             /\ sounds[h].cb \in DOMAIN playbackProgress'
             /\ playbackProgress'[sounds[h].cb] = Zero
             /\ \A id \in ProgressIds : id # sounds[h].cb => SameProgress(id)
      /\ \A id \in ProgressIds :
           ~SameProgress(id) =>
             \/ playbackProgress' = <<>> /\ playingId' = None
             \/ \E h \in SoundIds : sounds[h].loaded /\ sounds[h].cb = id
    ]_vars

\* C4 witness: the sound of the held item has finished (playingId none, its
\* progress 0, sound still loaded and not playing) and another item keeps
\* the progress above 0 it had before.
C4_Witness ==
  /\ playingId = None /\ currentSound # None
  /\ sounds[currentSound].loaded /\ ~sounds[currentSound].playing
  /\ sounds[currentSound].cb \in DOMAIN playbackProgress
  /\ playbackProgress[sounds[currentSound].cb] = Zero
  /\ \E a \in DOMAIN playbackProgress :
       a # sounds[currentSound].cb /\ playbackProgress[a] # Zero

\* C5: a sound that has been superseded delivers no status callback that
\* changes the state: every loaded sound with a registered callback is the
\* sound currently held (an unloaded sound only reports isLoaded false,
\* which the callback discards at line 934).
C5_NoStaleCallback ==
  \A h \in SoundIds : (sounds[h].loaded /\ sounds[h].cb # None) => h = currentSound

\* C5 witness: B's sound is held with its callback registered after it
\* superseded A, whose callback had reported progress before.
C5_Witness ==
  /\ currentSound # None /\ sounds[currentSound].loaded
  /\ sounds[currentSound].cb = playingId /\ playingId # None
  /\ \E a \in DOMAIN playbackProgress : a # playingId /\ playbackProgress[a] # Zero

\* C6: no step of playRecording on a Recording without uri changes the
\* playback state: playingId, the held sound handle and what the engine has
\* loaded, and the progress map stay as they are.
C6_NoUriNoMutation ==
  [][ \A t \in StepTasks("play") :
        t.uri = NoUri => UNCHANGED <<playingId, currentSound, sounds, playbackProgress>> ]_vars

\* C7: playingId is none or the id of a Recording that has a uri.
C7_ActiveHasUri ==
  playingId # None => \E r \in Playable : r.id = playingId /\ r.uri # NoUri

\* C7 witness: an item is active while a playRecording on a Recording
\* without uri is in flight.
C7_Witness ==
  /\ playingId # None
  /\ \E t \in BagToSet(tasks) : t.op = "play" /\ t.uri = NoUri

\* C8: the session status is always Idle, Recording or Paused: isPaused is
\* never true while isRecording is false.
C8_StatusWellFormed == ~(~isRecording /\ isPaused)

\* C9: recordingDuration changes only by a tick of +1 taken while recording
\* and not paused, or by the reset to 0 that ends the session; pause and
\* resume leave it alone.
C9_ElapsedOnlyTicks ==
  [][ recordingDuration' # recordingDuration =>
        \/ isRecording /\ ~isPaused /\ recordingDuration' = recordingDuration + 1
        \/ ~isRecording' /\ recordingDuration' = 0 ]_vars

\* C9 witness: a paused session that has counted at least one tick.
C9_Witness == isRecording /\ isPaused /\ recordingDuration > 0

\* C10: in every reachable state at most one capture handle is live.
C10_AtMostOneCapture == Cardinality(LiveCaptures) <= 1

\* the decimal digits of n without leading zero, and its last two digits
Digit(n) == <<"0", "1", "2", "3", "4", "5", "6", "7", "8", "9">>[n + 1]

RECURSIVE Decimal(_)
Decimal(n) == IF n < 10 THEN Digit(n) ELSE Decimal(n \div 10) \o Digit(n % 10)

TwoDigits(n) == Digit((n \div 10) % 10) \o Digit(n % 10)

\* H.MM.SS for s seconds
HMMSS(s) ==
  Decimal(s \div 3600) \o "." \o TwoDigits((s % 3600) \div 60) \o "." \o TwoDigits(s % 60)

\* the step is the continuation of stopRecording after a successful
\* stopAndUnloadAsync (lines 868-888) of task t
StopSucceeds(t) ==
  /\ t \in Tasks("stopRecording", "stop")
  /\ tasks' = Drop(t)

\* C11: for every number of seconds s the label formatDuration(s) that a stop
\* stores is H.MM.SS, with H = s div 3600 written without leading zero and
\* MM = (s mod 3600) div 60, SS = s mod 60 written with two digits each;
\* 0 gives "0.00.00", 65 gives "0.01.05" and 3661 gives "1.01.01".
C11_FormatDuration ==
  [][ \A t \in BagToSet(tasks) :
        StopSucceeds(t) =>
          /\ recordings'[1].duration = HMMSS(t.seconds)
          /\ t.seconds = 0 => recordings'[1].duration = "0.00.00"
          /\ t.seconds = 65 => recordings'[1].duration = "0.01.05"
          /\ t.seconds = 3661 => recordings'[1].duration = "1.01.01" ]_vars

\* C11 witness: the labels of 0, 65 and 3661 seconds can each be the one
\* stored; the state shown is the one that stored 3661 seconds.
C11_Witness ==
  /\ Len(recordings) > Len(OldStore)
  /\ recordings[1].duration = "1.01.01"

\* C12: a successful stopRecording of a session whose elapsed time was n at
\* the call adds exactly one Recording, at the head of the list, labelled
\* formatDuration(n) in section "Today", and leaves the session Idle with no
\* capture handle held or live; after 5 seconds the label is "0.00.05".
C12_StopAddsRecording ==
  [][ \A t \in BagToSet(tasks) :
        StopSucceeds(t) =>
          /\ Len(recordings') = Len(recordings) + 1
          /\ Tail(recordings') = recordings
          /\ recordings'[1].duration = formatDuration(t.seconds)
          /\ t.seconds = 5 => recordings'[1].duration = "0.00.05"
          /\ recordings'[1].section = "Today"
          /\ ~isRecording' /\ ~isPaused' /\ recordingDuration' = 0
          /\ recording' = None /\ t.rec \notin LiveCaptures' ]_vars

\* C12 witness: a session of 5 seconds has been stopped: its Recording heads
\* the list before the older one and the session is Idle without handle.
C12_Witness ==
  /\ Len(recordings) = Len(OldStore) + 1
  /\ recordings[1].duration = "0.00.05" /\ recordings[1].section = "Today"
  /\ Tail(recordings) = OldStore
  /\ ~isRecording /\ ~isPaused /\ recordingDuration = 0
  /\ recording = None /\ LiveCaptures = {}

\* the placeholder text the store is to show until the transcript arrives
\* (its ellipsis character is written here as three dots)
Sentinel == "Transcribing..."

\* reading r.isTranscribing: an absent field reads as undefined, not true
IsTranscribing(r) == "isTranscribing" \in DOMAIN r /\ r.isTranscribing

\* C13: every Recording created by stopRecording carries the transcription
\* "Transcribing..." and isTranscribing true, and keeps them as long as no
\* transcript has been written to it (nothing in the component writes one).
C13_StartsTranscribing ==
  \A i \in DOMAIN recordings :
    recordings[i].transcription = Sentinel /\ IsTranscribing(recordings[i])

\* the step is a stopAndUnloadAsync that throws although the engine has
\* released the handle held: no task is left, the handle held is gone
FinalizeFails ==
  /\ tasks' = tasks
  /\ recording # None
  /\ recording \in LiveCaptures /\ recording \notin LiveCaptures'

\* C14: when finalizing the capture handle fails in stopRecording, the
\* session is Idle afterwards (isRecording false, isPaused false, no handle
\* held, recordingDuration 0) and the store is as it was.
C14_StopFailureResets ==
  [][ FinalizeFails =>
        /\ ~isRecording' /\ ~isPaused' /\ recording' = None /\ recordingDuration' = 0
        /\ recordings' = recordings ]_vars

\* the step is the createAsync of startRecording task t that throws after
\* the handle of the session it supersedes was released: the task ends
\* without having created a capture
AcquireFails(t) ==
  /\ t \in Tasks("start", "stop")
  /\ tasks' = Drop(t)

\* C15: when acquiring the capture handle fails in startRecording, the
\* session is Idle with no handle held, also when the start had already
\* released the handle of the session it was superseding.
C15_StartFailureIdle ==
  [][ \A t \in BagToSet(tasks) :
        AcquireFails(t) => ~isRecording' /\ ~isPaused' /\ recording' = None ]_vars

\* the step is the continuation of startRecording after a successful
\* createAsync (lines 838-840) of task t
StartSucceeds(t) ==
  /\ t \in Tasks("start", "create")
  /\ tasks' = Drop(t)

\* C16: after every successful startRecording the session is Recording
\* (isRecording true, isPaused false) and recordingDuration is 0, also when
\* the start supersedes a session that had counted seconds.
C16_StartResetsElapsed ==
  [][ \A t \in BagToSet(tasks) :
        StartSucceeds(t) => isRecording' /\ ~isPaused' /\ recordingDuration' = 0 ]_vars

\* the step is the call of pauseRecording that starts task t
ToggleCalled(t) ==
  /\ t.op = "pauseRecording"
  /\ CopiesIn(t, tasks') = CopiesIn(t, tasks) + 1

\* the step is the continuation of pauseRecording task t (lines 852, 855)
ToggleDone(t) ==
  /\ t \in Tasks("pauseRecording", "toggle")
  /\ tasks' = Drop(t)

\* no call is in flight and a live handle is held by a session
Settled == tasks = EmptyBag /\ isRecording /\ recording # None /\ recording \in LiveCaptures

StopCalled ==
  \E t \in BagToSet(tasks') :
    t.op = "stopRecording" /\ CopiesIn(t, tasks') = CopiesIn(t, tasks) + 1

\* the step is neither a timer tick nor the start or the end of a task: it
\* is a command that returned or failed before its await
ReturnedAtOnce == tasks' = tasks /\ recordingDuration' = recordingDuration

\* C18: while no capture handle is held, stopRecording starts nothing and
\* changes nothing: the recordings, the session status, the elapsed time,
\* the engine and all playback state stay as they are.
C18_StopWithoutHandle ==
  [][ recording = None =>
        /\ ~StopCalled
        /\ ReturnedAtOnce => UNCHANGED vars
    ]_vars

\* C18 witness: a stop has stored its recording and cleared the handle, so
\* a further stop finds no handle
C18_Witness ==
  /\ recording = None /\ ~isRecording /\ tasks = EmptyBag
  /\ Len(recordings) > Len(OldStore)

\* C19: the list of recordings changes only when a stopRecording whose
\* engine request succeeded resumes, and then by one new entry at the head:
\* the list before the step is the tail of the list after it.  No playback
\* command or callback, no pause, resume or start changes the list.
C19_PrependOnly ==
  [][ recordings' # recordings =>
        /\ \E t \in BagToSet(tasks) : StopSucceeds(t)
        /\ Len(recordings') = Len(recordings) + 1
        /\ Tail(recordings') = recordings
    ]_vars

\* C19 witness: a recording made in this run is at the head of the list,
\* over the older one, and is loaded for playback
C19_Witness ==
  /\ Len(recordings) = Len(OldStore) + 1
  /\ Tail(recordings) = OldStore
  /\ playingId = recordings[1].id
  /\ currentSound # None

\* the ids never grow from the head of the list to its tail
IdsNeverGrow ==
  \A i \in 1 .. Len(recordings) - 1 : recordings[i].id >= recordings[i + 1].id

\* C20: the recordings of the list have pairwise distinct ids, and the ids
\* strictly decrease from the head (newest) to the tail, with a clock that
\* never goes back but may return the same value twice.
C20_DistinctDecreasingIds ==
  /\ \A i, j \in 1 .. Len(recordings) : i # j => recordings[i].id # recordings[j].id
  /\ \A i \in 1 .. Len(recordings) - 1 : recordings[i].id > recordings[i + 1].id

\* the fraction v is the percentage of position p in duration d
IsPercentOf(v, p, d) ==
  IF d = 0 THEN v = Zero
  ELSE v[2] > 0 /\ v[1] * d = p * 100 * v[2]

\* the fraction v lies in [0, 100]
InPercentRange(v) == v[2] > 0 /\ 0 <= v[1] /\ v[1] <= 100 * v[2]

\* the step is a status callback for item id that does not report the end
PositionReported(id) ==
  /\ tasks' = tasks /\ sounds' = sounds /\ playingId' = playingId
  /\ id \in DOMAIN playbackProgress'
  /\ playbackProgress' = Put(playbackProgress, id, playbackProgress'[id])

\* C21: a position callback sets the progress of its item to
\* positionMillis / durationMillis * 100, or to 0 when durationMillis is 0,
\* and with 0 <= positionMillis <= durationMillis every entry of the
\* progress map is a percentage in [0, 100].
C21_ProgressIsPercentage ==
  [][ /\ \A id \in DOMAIN playbackProgress' :
           (PositionReported(id) /\ playbackProgress' # playbackProgress) =>
             \E p \in 0 .. MaxPosition, d \in 0 .. MaxPosition :
               /\ d # 0 => p <= d
               /\ IsPercentOf(playbackProgress'[id], p, d)
      /\ \A id \in DOMAIN playbackProgress' : InPercentRange(playbackProgress'[id])
    ]_vars

\* C21 witness: the item being played is shown at three quarters
C21_Witness ==
  /\ playingId # None /\ playingId \in DOMAIN playbackProgress
  /\ playbackProgress[playingId] = <<75, 1>>

\* the step is the engine request of pausePlayback task t (lines 969-973)
PauseToggles(t) ==
  /\ t \in Tasks("pausePlayback", "status")
  /\ tasks' = Drop(t)

\* C22: pausePlayback pauses the engine when an item is active and playing,
\* resumes it when an item is active and paused, and changes neither the
\* engine nor the state when no item is active, also after the last item
\* has finished playing.
C22_TogglePause ==
  [][ \A t \in BagToSet(tasks) :
        PauseToggles(t) =>
          /\ UNCHANGED <<playingId, playbackProgress, currentSound>>
          /\ IF playingId = None
             THEN sounds' = sounds
             ELSE sounds' = [sounds EXCEPT ![currentSound].playing = ~sounds[currentSound].playing]
    ]_vars

\* lines 1040-1069: the list that is rendered
Shown == IF Len(recordings) = 0 THEN sampleRecordings ELSE recordings

\* lines 1212 and 1250: isPlaying = (playingId === recording.id) picks the glyph
Glyph(r) == IF playingId = r.id THEN "pause" ELSE "play"

\* line 1243: the handler the control of r calls when pressed
OnPress(r) ==
  IF r.uri = NoUri THEN "none"
  ELSE IF playingId = r.id THEN "pausePlayback" ELSE "playRecording"

\* the engine is playing the sound that is held
EnginePlaying ==
  currentSound # None /\ sounds[currentSound].loaded /\ sounds[currentSound].playing

\* C23: whenever no playback call is in flight, the control of item X shows
\* the pause glyph if and only if X is the active item and playback is not
\* paused; an active item whose playback is paused shows the play glyph,
\* and pressing it calls pausePlayback (which resumes), not playRecording.
C23_GlyphFollowsPlayback ==
  tasks = EmptyBag =>
    \A i \in 1 .. Len(Shown) :
      /\ Glyph(Shown[i]) = "pause" <=> (playingId = Shown[i].id /\ EnginePlaying)
      /\ (playingId = Shown[i].id /\ ~EnginePlaying) => OnPress(Shown[i]) = "pausePlayback"

\* the step is the last one of a stopPlayback whose engine requests
\* succeeded (lines 985-989)
StopPlaybackDone ==
  \E t \in Tasks("stopPlayback", "unload") : tasks' = Drop(t)

\* the step is the end of a stopPlayback whose stopAsync is rejected
StopPlaybackFails ==
  \E t \in Tasks("stopPlayback", "stop") : tasks' = Drop(t)

\* playback is idle: no sound is loaded or held, no item is active, the
\* progress map is empty
PlaybackIdle ==
  /\ LoadedSounds = {} /\ currentSound = None
  /\ playingId = None
  /\ playbackProgress = <<>>

\* C24: when stopPlayback has returned, no sound is live, no item is active
\* and the progress map is empty, also when the engine's stop request fails.
C24_StopPlaybackClears ==
  [][ (StopPlaybackDone \/ StopPlaybackFails) => PlaybackIdle' ]_vars

\* the step is the one of playRecording task t in which createAsync throws
\* after the sound held before has been unloaded (lines 908-921, catch 959-962)
PlayLoadFails(t) ==
  /\ t \in Tasks("play", "unload")
  /\ t.uri # NoUri
  /\ tasks' = Drop(t)

\* C25: when the load fails inside playRecording, playback ends idle: no
\* item is active and no sound is held, also when another item was active
\* when the call was made.
C25_LoadFailureIdle ==
  [][ \A t \in BagToSet(tasks) :
        PlayLoadFails(t) => /\ playingId' = None
                            /\ currentSound' = None
                            /\ LoadedSounds' = {}
    ]_vars

\* C26: playRecording of a recording whose file is missing or empty is
\* rejected before anything is asked of the engine and leaves the playback
\* state (active item, progress, held sound, engine) unchanged.
C26_StaleAssetRejected ==
  [][ \A t \in StepTasks("play") : t.uri = StaleUri => UNCHANGED playbackVars ]_vars

\* the ids stopRecording can give
StopIds == FirstNow .. (FirstNow + MaxClock)

\* the recording of this id is in the list
Stored(id) == \E i \in 1 .. Len(recordings) : recordings[i].id = id

\* the recording of this id is in the list and its transcription has ended
Transcribed(id) ==
  \E i \in 1 .. Len(recordings) :
    /\ recordings[i].id = id
    /\ "isTranscribing" \in DOMAIN recordings[i]
    /\ ~recordings[i].isTranscribing

\* C27: every recording that stopRecording has put in the list gets a
\* transcription job that ends with isTranscribing false, whether it
\* succeeds or fails, and isTranscribing does not become true again.
C27_TranscriptionEnds ==
  /\ \A id \in StopIds : Stored(id) ~> Transcribed(id)
  /\ [][\A id \in StopIds : Transcribed(id) => Transcribed(id)']_vars

\* app config, extra.groqApiKey: process.env.EXPO_PUBLIC_GROQ_API_KEY ?? ''
\* with the variable not set
groqApiKey == ""

\* the recording of this id is in the list, its transcription has ended and
\* a final message stands in place of the text it was stored with
FinalMessage(id) ==
  \E i \in 1 .. Len(recordings) :
    /\ recordings[i].id = id
    /\ "isTranscribing" \in DOMAIN recordings[i]
    /\ ~recordings[i].isTranscribing
    /\ recordings[i].transcription # newRecording(id, 0, FileUri).transcription

\* C28: with no service credential (groqApiKey empty), the transcription of
\* a stored recording ends at once with the fixed "not configured" message
\* and isTranscribing false, without a call to the service.
C28_NoCredentialShortCircuits ==
  \A id \in StopIds : (groqApiKey = "" /\ Stored(id)) ~> FinalMessage(id)

\* C29: after the component is torn down, no sound and no capture handle
\* is live, whatever the session and the playback were doing.
C29_TeardownReleasesHandles ==
  [][ Teardown => (LoadedSounds' = {} /\ LiveCaptures' = {}) ]_vars

\* a sound is held and it is loaded
SoundHeld == currentSound # None /\ sounds[currentSound].loaded

\* C30: whenever no playback call is in flight, an item is active
\* (playingId set) if and only if a loaded sound is held: no item is shown
\* as playing without a sound, and no sound stays loaded once nothing is
\* active.
C30_ActiveIffSoundHeld ==
  ~PlayBusy => (playingId # None <=> SoundHeld)

\* C31: whenever no capture call is in flight, a capture handle is held
\* (recording set) if and only if isRecording is true, and a handle that is
\* held is live in the engine, never one that has been stopped and unloaded.
C31_HandleIffRecording ==
  ~CaptureBusy =>
    /\ recording # None <=> isRecording
    /\ recording # None => recording \in LiveCaptures

\* C32: one capture session puts at most one recording in the list, also
\* when stopRecording is called a second time before the first call has
\* resumed and cleared the handle.
C32_OneRecordingPerSession ==
  Len(recordings) <= Len(OldStore) + 1

\* C33: saveCurrentRecording shows the "Recording Saved" notice only when
\* the stopRecording it awaited has added a recording to the list; when
\* finalizing fails, the notice is not shown.
C33_SavedNoticeOnlyAfterSave ==
  [][ \A t \in BagToSet(tasks) : SaveAlert(t) => t.added ]_vars

\* C34: after a two-finger press and its release during a Recording
\* session, once every pending call has completed the session is Recording
\* again, however the release falls relative to the pause that the press
\* started: it is never left Paused.
C34_ReleaseResumes ==
  tasks = EmptyBag => ~isPaused

====
